---- MODULE Spec2Model ----
(***************************************************************************)
(* Conversation service: the credential store (session_manager.py), the    *)
(* session-request endpoint and the socket endpoint with its duplex relay   *)
(* (routes/conversation.py).                                                *)
(*                                                                          *)
(* Spec         the store under concurrent callers: create_session, two     *)
(*              redeemers calling consume_session with arbitrary arguments, *)
(*              and a clock.                                                *)
(* SpecRequest  the session-request endpoint, the only caller of            *)
(*              create_session, with the store and the clock.               *)
(* SpecSocket   one execution of conversation_socket, from accept to return,*)
(*              with its two pump tasks, the client and the upstream agent. *)
(* SpecSocketFair  SpecSocket with the event loop running every ready step. *)
(***************************************************************************)
EXTENDS Integers, Sequences, FiniteSets, TLC

\* ------------------------------------------------------------ constants
session_ttl_seconds == 120
HTTP_401_UNAUTHORIZED == 401
HTTP_404_NOT_FOUND == 404
HTTP_502_BAD_GATEWAY == 502
WS_1000_NORMAL_CLOSURE == 1000
WS_1008_POLICY_VIOLATION == 1008
WS_1011_INTERNAL_ERROR == 1011

\* ------------------------------------------------------------ bounds
\* The clock advances in steps of one ttl, MaxTicks times at most.
MaxTicks == 2
\* token_urlsafe is called at most MaxSessions times by create_session.
MaxSessions == 2
\* Frames each peer puts on the wire during one relay.
MaxFrames == 2

TickUnit == session_ttl_seconds
Users == {"u1", "u2"}
Redeemers == {"r1", "r2"}
\* token_urlsafe(16) and token_urlsafe(32) return values never returned before:
\* the n-th session gets id n and token n.  Callers may present any of them.
SessionIds == 1..MaxSessions
Tokens == 1..MaxSessions

\* ------------------------------------------------------------ state
VARIABLES
    sessions,      \* ConversationSessionManager._sessions: id -> PendingSession
    lock,          \* ConversationSessionManager._lock: its holder, or "free"
    now,           \* datetime.now(timezone.utc), in seconds
    minted,        \* history: id -> owner passed to, token and deadline set by create_session
    tried,         \* history: minted ids popped by some consume_session
    okCount,       \* history: id -> number of consume_session calls that returned
    rpc,           \* redeemer -> position in consume_session
    rargs,         \* redeemer -> (session_id, token) of the call
    rrecord,       \* redeemer -> local `record`
    rresult,       \* redeemer -> outcome of its last call and what the history says of it
    hpc,           \* position of create_conversation_session
    hauth,         \* its Authorization header
    huser,         \* its local `user`
    hdata,         \* what the profile table answered
    hbase,         \* history: the store when the request arrived
    hresult,       \* outcome of the last session request
    wpc,           \* position of conversation_socket
    wparams,       \* websocket.query_params: session_id and session_token
    wsession,      \* its local `session`
    wprofile,      \* its local `profile`
    wexc,          \* the exception conversation_socket is raising, or "none"
    wfail,         \* history: the step of conversation_socket that failed, or "none"
    wend,          \* how conversation_socket ended: "", "returned" or "raised"
    closeCalls,    \* history: the websocket.close calls made, in order
    eleven,        \* eleven_ws on this side: "none", "open" or "closed"
    peer,          \* the upstream agent's end: "open", "closed_ok" or "closed_err"
    tpc,           \* pump task -> position
    texc,          \* pump task -> the exception it is raising or ended with
    tcancel,       \* pump task -> task.cancel() was called and not yet delivered
    theld,         \* pump task -> the frame received and not yet forwarded
    firstDone,     \* history: the pump task that was done first, and how it ended
    clientFrames,  \* the messages the client has put on the wire
    cRecv,         \* how many of them websocket.receive() has returned
    elevenSent,    \* history: the frames eleven_ws.send has sent, in order
    elevenFrames,  \* the frames the upstream agent has put on the wire
    eRecv,         \* how many of them the iteration over eleven_ws has returned
    clientSent     \* history: the frames sent to the client, in order

storeVars == <<sessions, lock, now, minted, tried, okCount>>
redeemVars == <<rpc, rargs, rrecord, rresult>>
httpVars == <<hpc, hauth, huser, hdata, hbase, hresult>>
handlerVars == <<wpc, wparams, wsession, wprofile, wexc, wfail, wend>>
taskVars == <<tpc, texc, tcancel, theld, firstDone>>
wireVars == <<clientFrames, cRecv, elevenSent, elevenFrames, eRecv, clientSent>>
socketVars == <<handlerVars, closeCalls, eleven, peer, taskVars, wireVars>>
vars == <<storeVars, redeemVars, httpVars, socketVars>>

\* ------------------------------------------------------------ values
None == [none |-> TRUE]

PendingSession(user_id, session_token, expires_at) ==
    [user_id |-> user_id, session_token |-> session_token, expires_at |-> expires_at]

HTTPException(status_code, detail) ==
    [kind |-> "raise", status_code |-> status_code, detail |-> detail]

Return(value) == [kind |-> "return", value |-> value]

NoArgs == [session_id |-> 0, token |-> 0]

NoRecord == [record |-> None, first |-> FALSE]

NoObs ==
    [session_id |-> 0, minted |-> FALSE, token_ok |-> FALSE, late |-> FALSE,
     on_deadline |-> FALSE, first |-> FALSE, owner |-> ""]

NoResult == [kind |-> "none", out |-> None, obs |-> NoObs, raced |-> FALSE]

\* ------------------------------------------------------------ credential store
\* dict.pop(key, None): the value removed, and the dict without the key.
DictPopPeek(d, k) ==
    [value |-> IF k \in DOMAIN d THEN d[k] ELSE None, dict |-> d]

DictPop(d, k) ==
    [value |-> IF k \in DOMAIN d THEN d[k] ELSE None,
     dict |-> [x \in DOMAIN d \ {k} |-> d[x]]]

\* consume_session after the pop: the two checks and the return.
ConsumeCheckTokenDetail(record, token, t) ==
    IF record = None
    THEN HTTPException(HTTP_401_UNAUTHORIZED, "Invalid or expired session")
    ELSE IF record.session_token # token
         THEN HTTPException(HTTP_401_UNAUTHORIZED, "Invalid session token")
         ELSE IF t > record.expires_at
              THEN HTTPException(HTTP_401_UNAUTHORIZED, "Session expired")
              ELSE Return(record)

ConsumeCheckInverted(record, token, t) ==
    IF record = None \/ record.session_token # token
    THEN HTTPException(HTTP_401_UNAUTHORIZED, "Invalid or expired session")
    ELSE IF t < record.expires_at
         THEN HTTPException(HTTP_401_UNAUTHORIZED, "Session expired")
         ELSE Return(record)

ConsumeCheckNoExpiry(record, token, t) ==
    IF record = None \/ record.session_token # token
    THEN HTTPException(HTTP_401_UNAUTHORIZED, "Invalid or expired session")
    ELSE Return(record)

ConsumeCheckAtOrAfter(record, token, t) ==
    IF record = None \/ record.session_token # token
    THEN HTTPException(HTTP_401_UNAUTHORIZED, "Invalid or expired session")
    ELSE IF t >= record.expires_at
         THEN HTTPException(HTTP_401_UNAUTHORIZED, "Session expired")
         ELSE Return(record)

ConsumeCheck(record, token, t) ==
    IF record = None \/ record.session_token # token
    THEN HTTPException(HTTP_401_UNAUTHORIZED, "Invalid or expired session")
    ELSE IF t > record.expires_at
         THEN HTTPException(HTTP_401_UNAUTHORIZED, "Session expired")
         ELSE Return(record)

\* create_session: the identifiers token_urlsafe returns and the record stored.
NextId == Cardinality(DOMAIN minted) + 1

NewSession(user_id, t) ==
    PendingSession(user_id, NextId, t + session_ttl_seconds)

\* `async with self._lock`: entered only while no one holds the lock.
LockFree(who) == lock = "free"

\* ------------------------------------------------------------ create_session
\* The whole call: the lock is taken, the record stored, the pair returned.  The
\* history keeps the owner passed in, the token returned and the deadline.
CreateSession(user_id) ==
    /\ LockFree("issuer")
    /\ NextId <= MaxSessions
    /\ LET sid == NextId
           rec == NewSession(user_id, now)
           returned == <<sid, rec.session_token>>
       IN /\ sessions' = [x \in DOMAIN sessions \cup {sid} |->
                             IF x = sid THEN rec ELSE sessions[x]]
          /\ minted' = [x \in DOMAIN minted \cup {returned[1]} |->
                           IF x = returned[1]
                           THEN PendingSession(user_id, returned[2],
                                               now + session_ttl_seconds)
                           ELSE minted[x]]
    /\ UNCHANGED <<lock, now, tried, okCount>>

\* ------------------------------------------------------------ consume_session
\* A caller invokes consume_session(session_id, token) and waits for the lock.
ConsumeCall(r, sid, tok) ==
    /\ rpc[r] = "idle"
    /\ rpc' = [rpc EXCEPT ![r] = "acquire"]
    /\ rargs' = [rargs EXCEPT ![r] = [session_id |-> sid, token |-> tok]]
    /\ rresult' = [rresult EXCEPT ![r] = NoResult]
    /\ UNCHANGED <<storeVars, rrecord, httpVars>>

\* `async with self._lock`
ConsumeAcquire(r) ==
    /\ rpc[r] = "acquire"
    /\ LockFree(r)
    /\ lock' = r
    /\ rpc' = [rpc EXCEPT ![r] = "pop"]
    /\ UNCHANGED <<sessions, now, minted, tried, okCount, rargs, rrecord, rresult, httpVars>>

\* record = self._sessions.pop(session_id, None)
ConsumePop(r) ==
    /\ rpc[r] = "pop"
    /\ LET sid == rargs[r].session_id
           p == DictPop(sessions, sid)
       IN /\ sessions' = p.dict
          /\ rrecord' = [rrecord EXCEPT ![r] =
                 [record |-> p.value,
                  first |-> sid \in DOMAIN minted /\ sid \notin tried]]
          /\ tried' = tried \cup ({sid} \cap DOMAIN minted)
    /\ rpc' = [rpc EXCEPT ![r] = "check"]
    /\ UNCHANGED <<lock, now, minted, okCount, rargs, rresult, httpVars>>

\* What the history says of a call as it ends at time t: whether the id had been
\* minted, whether the token is the one create_session returned for it, whether
\* the deadline has passed or is now, whether the pop was the first on the id,
\* and the owner the id was minted for.
Observation(sid, tok, t, first) ==
    IF sid \in DOMAIN minted
    THEN [session_id |-> sid, minted |-> TRUE,
          token_ok |-> tok = minted[sid].session_token,
          late |-> t > minted[sid].expires_at,
          on_deadline |-> t = minted[sid].expires_at,
          first |-> first, owner |-> minted[sid].user_id]
    ELSE [NoObs EXCEPT !.session_id = sid]

\* Another caller is waiting for the lock with the same arguments.
Raced(r) ==
    \E o \in Redeemers \ {r} : rpc[o] = "acquire" /\ rargs[o] = rargs[r]

\* The checks, the raise or return, and the release of the lock.
ConsumeFinish(r) ==
    /\ rpc[r] = "check"
    /\ LET out == ConsumeCheck(rrecord[r].record, rargs[r].token, now)
           sid == rargs[r].session_id
       IN /\ rresult' = [rresult EXCEPT ![r] =
                 [kind |-> out.kind, out |-> out,
                  obs |-> Observation(sid, rargs[r].token, now, rrecord[r].first),
                  raced |-> Raced(r)]]
          /\ okCount' = IF out.kind = "return"
                        THEN [okCount EXCEPT ![sid] = @ + 1]
                        ELSE okCount
    /\ lock' = "free"
    /\ rpc' = [rpc EXCEPT ![r] = "idle"]
    /\ rargs' = [rargs EXCEPT ![r] = NoArgs]
    /\ rrecord' = [rrecord EXCEPT ![r] = NoRecord]
    /\ UNCHANGED <<sessions, now, minted, tried, httpVars>>

\* ------------------------------------------------------------ session request
\* The Authorization header: absent, or a scheme prefix and the rest of the text.
NoHeader == [present |-> FALSE, prefix |-> "", rest |-> ""]
Headers ==
    {NoHeader} \cup
    [present : {TRUE}, prefix : {"Bearer ", "Basic "},
     rest : {"", " ", "jwt-u1", "jwt-u2", "jwt-bad"}]

\* str.strip() on the texts above.
Strip(s) == IF s = " " THEN "" ELSE s

\* verify_supabase_jwt: the identity the provider vouches for, or unauthenticated.
verify_supabase_jwt(token) ==
    CASE token = "jwt-u1" -> Return("u1")
      [] token = "jwt-u2" -> Return("u2")
      [] OTHER -> HTTPException(HTTP_401_UNAUTHORIZED, "Invalid token")

RequireAuthUser(authorization) ==
    IF ~authorization.present \/ authorization.prefix # "Bearer "
    THEN HTTPException(HTTP_401_UNAUTHORIZED, "Missing Authorization header")
    ELSE IF Strip(authorization.rest) = ""
         THEN HTTPException(HTTP_401_UNAUTHORIZED, "Missing Supabase token")
         ELSE verify_supabase_jwt(Strip(authorization.rest))

\* What the profile table answers: no row, or a row whose two fields are strings
\* or not.
StrField == [str |-> TRUE, text |-> "Ann"]
OtherField == [str |-> FALSE, text |-> ""]
NoRow == [row |-> FALSE, first_name |-> OtherField, primary_goal |-> OtherField]
ProfileData ==
    {NoRow} \cup
    [row : {TRUE}, first_name : {StrField, OtherField},
     primary_goal : {StrField, OtherField}]

fetch_profile(user_id, data) ==
    IF ~data.row
    THEN HTTPException(HTTP_404_NOT_FOUND, "User profile not found")
    ELSE IF ~data.first_name.str \/ ~data.primary_goal.str
         THEN HTTPException(HTTP_404_NOT_FOUND, "User profile not found")
         ELSE Return([user_id |-> user_id, first_name |-> data.first_name.text,
                      primary_goal |-> data.primary_goal.text])

\* A request arrives at POST /api/conversation/session.
HttpRequest(h) ==
    /\ hpc = "idle"
    /\ hpc' = "auth"
    /\ hauth' = h
    /\ hdata' = NoRow
    /\ hbase' = [sessions |-> sessions, minted |-> minted]
    /\ hresult' = NoResult
    /\ UNCHANGED <<storeVars, huser>>

\* user = await _require_auth_user(authorization)
HttpRequireAuth ==
    /\ hpc = "auth"
    /\ LET out == RequireAuthUser(hauth)
       IN IF out.kind = "raise"
          THEN /\ hpc' = "idle"
               /\ hresult' = [NoResult EXCEPT !.kind = "raise", !.out = out]
               /\ UNCHANGED huser
          ELSE /\ hpc' = "profile"
               /\ huser' = out.value
               /\ UNCHANGED hresult
    /\ UNCHANGED <<storeVars, hauth, hdata, hbase>>

\* The handler with create_session moved before the profile check.
HttpFetchProfileAfterMint ==
    /\ hpc = "profile"
    /\ CreateSession(huser)
    /\ \E data \in ProfileData :
           LET out == fetch_profile(huser, data)
           IN /\ hdata' = data
              /\ IF out.kind = "raise"
                 THEN /\ hpc' = "idle"
                      /\ hresult' = [NoResult EXCEPT !.kind = "raise", !.out = out]
                 ELSE /\ hpc' = "create"
                      /\ UNCHANGED hresult
    /\ UNCHANGED <<hauth, huser, hbase>>

\* await profile_service.fetch_profile(user.user_id)
HttpFetchProfile ==
    /\ hpc = "profile"
    /\ \E data \in ProfileData :
           LET out == fetch_profile(huser, data)
           IN /\ hdata' = data
              /\ IF out.kind = "raise"
                 THEN /\ hpc' = "idle"
                      /\ hresult' = [NoResult EXCEPT !.kind = "raise", !.out = out]
                 ELSE /\ hpc' = "create"
                      /\ UNCHANGED hresult
    /\ UNCHANGED <<storeVars, hauth, huser, hbase>>

\* session_id, session_token = await session_manager.create_session(user.user_id)
\* and the response built from them.
HttpCreateSession ==
    /\ hpc = "create"
    /\ CreateSession(huser)
    /\ hpc' = "idle"
    /\ hresult' = [NoResult EXCEPT !.kind = "return",
                      !.out = Return([session_id |-> NextId,
                                      session_token |-> NewSession(huser, now).session_token,
                                      expires_in_seconds |-> session_ttl_seconds])]
    /\ UNCHANGED <<hauth, huser, hdata, hbase>>

\* ------------------------------------------------------------ socket endpoint
Tasks == {"to_eleven", "to_client"}

\* A query parameter: 0 when it is absent or empty, else the value.
QueryValues == 0..MaxSessions

\* An optional field of an ASGI message.
Nil == [some |-> FALSE, v |-> <<>>]
Some(v) == [some |-> TRUE, v |-> v]

\* What websocket.receive() returns.
ClientMessages ==
    {[type |-> "websocket.receive", text |-> Some(<<"a">>), bytes |-> Nil],
     [type |-> "websocket.receive", text |-> Nil, bytes |-> Some(<<"b">>)],
     [type |-> "websocket.disconnect", text |-> Nil, bytes |-> Nil]}

\* A frame on a socket: a str is a text frame, bytes are a binary frame; its
\* data is a sequence of symbols.
Frame(kind, data) == [kind |-> kind, data |-> data]
NoFrame == Frame("none", <<>>)
UpstreamFrames == {Frame("text", <<"x">>), Frame("binary", <<"y">>)}

\* get_signed_url: what the provider answers.
SignedUrlResponses == {"http_error", "no_signed_url", "signed_url"}

get_signed_url(response) ==
    IF response = "http_error"
    THEN HTTPException(HTTP_502_BAD_GATEWAY, "Failed to obtain ElevenLabs signed URL")
    ELSE IF response = "no_signed_url"
         THEN HTTPException(HTTP_502_BAD_GATEWAY, "ElevenLabs response missing signed_url")
         ELSE Return([url |-> "wss"])

\* _build_initiation_payload and the greeting it carries, sent as one text frame.
Greeting(profile) == <<"Hey ", profile.first_name, ", how is your ",
                       profile.primary_goal, " going today?">>

\* settings.elevenlabs_voice_id: not configured by default.
elevenlabs_voice_id == ""

BuildInitiationPayload(profile, greeting) ==
    [type |-> "conversation_initiation_client_data",
     conversation_config_overrides |->
         [agent |-> [first_message |-> greeting],
          tts |-> IF elevenlabs_voice_id # "" THEN <<elevenlabs_voice_id>> ELSE <<>>],
     dynamic_variables |-> [first_name |-> profile.first_name,
                            primary_goal |-> profile.primary_goal],
     user_id |-> profile.user_id]

\* json.dumps of the payload: its values in the order of its keys.
JsonDumps(payload) ==
    <<payload.type>>
        \o payload.conversation_config_overrides.agent.first_message
        \o payload.conversation_config_overrides.tts
        \o <<payload.dynamic_variables.first_name,
              payload.dynamic_variables.primary_goal,
              payload.user_id>>

InitFrame(profile) ==
    Frame("text", JsonDumps(BuildInitiationPayload(profile, Greeting(profile))))

\* One turn of the loop of client_to_elevenlabs on a received message.
ClientStepAllText(message) ==
    IF message.text.some
    THEN [act |-> "send", frame |-> Frame("text", message.text.v)]
    ELSE IF message.bytes.some
         THEN [act |-> "send", frame |-> Frame("text", message.bytes.v)]
         ELSE IF message.type = "websocket.disconnect"
              THEN [act |-> "break", frame |-> NoFrame]
              ELSE [act |-> "continue", frame |-> NoFrame]

ClientStep(message) ==
    IF message.text.some
    THEN [act |-> "send", frame |-> Frame("text", message.text.v)]
    ELSE IF message.bytes.some
         THEN [act |-> "send", frame |-> Frame("binary", message.bytes.v)]
         ELSE IF message.type = "websocket.disconnect"
              THEN [act |-> "break", frame |-> NoFrame]
              ELSE [act |-> "continue", frame |-> NoFrame]

\* One turn of the loop of elevenlabs_to_client: send_bytes or send_text.
UpstreamStep(data) ==
    IF data.kind = "binary"
    THEN Frame("binary", data.data)
    ELSE Frame("text", data.data)

\* websocket.close(code, reason) as issued by `by`.
CloseCall(code, reason, by) == [code |-> code, reason |-> reason, by |-> by]

ClientClosed == closeCalls # <<>>
ClientGone ==
    \E i \in 1..Len(clientFrames) : clientFrames[i].type = "websocket.disconnect"
UpstreamWritable == eleven = "open" /\ peer = "open"

\* No task is done yet; the record of the first task done.
NoTask == [task |-> "none", exc |-> "none"]
MarkDone(t, exc) ==
    firstDone' = IF firstDone = NoTask THEN [task |-> t, exc |-> exc] ELSE firstDone

InitSocketVars ==
    /\ wpc = "idle"
    /\ wparams = [session_id |-> 0, session_token |-> 0]
    /\ wsession = None
    /\ wprofile = None
    /\ wexc = "none"
    /\ wfail = "none"
    /\ wend = ""
    /\ closeCalls = <<>>
    /\ eleven = "none"
    /\ peer = "open"
    /\ tpc = [t \in Tasks |-> "none"]
    /\ texc = [t \in Tasks |-> "none"]
    /\ tcancel = [t \in Tasks |-> FALSE]
    /\ theld = [t \in Tasks |-> NoFrame]
    /\ firstDone = NoTask
    /\ clientFrames = <<>>
    /\ cRecv = 0
    /\ elevenSent = <<>>
    /\ elevenFrames = <<>>
    /\ eRecv = 0
    /\ clientSent = <<>>

nonSocketVars == <<lock, now, minted, redeemVars, httpVars>>

\* ---- the two peers
\* The client puts a message on the wire; a disconnect is its last.
ClientPut(m) ==
    /\ wpc \notin {"idle", "done"}
    /\ ~ClientClosed /\ ~ClientGone
    /\ Len(clientFrames) < MaxFrames
    /\ clientFrames' = Append(clientFrames, m)
    /\ UNCHANGED <<sessions, tried, okCount, nonSocketVars, handlerVars, closeCalls,
                   eleven, peer, taskVars, cRecv, elevenSent, elevenFrames, eRecv,
                   clientSent>>

\* The upstream agent puts a frame on the wire.
UpstreamPut(f) ==
    /\ UpstreamWritable
    /\ Len(elevenFrames) < MaxFrames
    /\ elevenFrames' = Append(elevenFrames, f)
    /\ UNCHANGED <<sessions, tried, okCount, nonSocketVars, handlerVars, closeCalls,
                   eleven, peer, taskVars, clientFrames, cRecv, elevenSent, eRecv,
                   clientSent>>

\* The upstream agent closes its end, with a normal or an error close code.
UpstreamClose(k) ==
    /\ UpstreamWritable
    /\ peer' = k
    /\ UNCHANGED <<sessions, tried, okCount, nonSocketVars, handlerVars, closeCalls,
                   eleven, taskVars, wireVars>>

\* ---- conversation_socket
\* await websocket.accept(), and the query parameters of the connection.
Accept(sid, tok) ==
    /\ wpc = "idle"
    /\ wpc' = "params"
    /\ wparams' = [session_id |-> sid, session_token |-> tok]
    /\ UNCHANGED <<sessions, tried, okCount, nonSocketVars, wsession, wprofile, wexc,
                   wfail, wend, closeCalls, eleven, peer, taskVars, wireVars>>

\* if not session_id or not session_token: close(1008) and return
CheckParams ==
    /\ wpc = "params"
    /\ IF wparams.session_id = 0 \/ wparams.session_token = 0
       THEN /\ closeCalls' = Append(closeCalls,
                                    CloseCall(WS_1008_POLICY_VIOLATION, "", "handler"))
            /\ wfail' = "params"
            /\ wend' = "returned"
            /\ wpc' = "done"
       ELSE /\ wpc' = "redeem"
            /\ UNCHANGED <<closeCalls, wfail, wend>>
    /\ UNCHANGED <<sessions, tried, okCount, nonSocketVars, wparams, wsession, wprofile,
                   wexc, eleven, peer, taskVars, wireVars>>

\* session = await session_manager.consume_session(...), the whole call under the
\* lock; on HTTPException close(1008, exc.detail) and return.
Redeem ==
    /\ wpc = "redeem"
    /\ LockFree("socket")
    /\ LET sid == wparams.session_id
           p == DictPop(sessions, sid)
           out == ConsumeCheck(p.value, wparams.session_token, now)
       IN /\ sessions' = p.dict
          /\ tried' = tried \cup ({sid} \cap DOMAIN minted)
          /\ IF out.kind = "raise"
             THEN /\ closeCalls' = Append(closeCalls,
                        CloseCall(WS_1008_POLICY_VIOLATION, out.detail, "handler"))
                  /\ wfail' = "redeem"
                  /\ wend' = "returned"
                  /\ wpc' = "done"
                  /\ UNCHANGED <<wsession, okCount>>
             ELSE /\ wsession' = out.value
                  /\ okCount' = [okCount EXCEPT ![sid] = @ + 1]
                  /\ wpc' = "profile"
                  /\ UNCHANGED <<closeCalls, wfail, wend>>
    /\ UNCHANGED <<nonSocketVars, wparams, wprofile, wexc, eleven, peer, taskVars,
                   wireVars>>

\* profile = await profile_service.fetch_profile(session.user_id); on
\* HTTPException close(1011, exc.detail) and return.
FetchProfile ==
    /\ wpc = "profile"
    /\ \E data \in ProfileData :
           LET out == fetch_profile(wsession.user_id, data)
           IN IF out.kind = "raise"
              THEN /\ closeCalls' = Append(closeCalls,
                         CloseCall(WS_1011_INTERNAL_ERROR, out.detail, "handler"))
                   /\ wfail' = "profile"
                   /\ wend' = "returned"
                   /\ wpc' = "done"
                   /\ UNCHANGED wprofile
              ELSE /\ wprofile' = out.value
                   /\ wpc' = "signed"
                   /\ UNCHANGED <<closeCalls, wfail, wend>>
    /\ UNCHANGED <<sessions, tried, okCount, nonSocketVars, wparams, wsession, wexc,
                   eleven, peer, taskVars, wireVars>>

\* The signed-URL step whose except branch closes the socket and does not return.
GetSignedUrlNoReturn ==
    /\ wpc = "signed"
    /\ \E response \in SignedUrlResponses :
           LET out == get_signed_url(response)
           IN IF out.kind = "raise"
              THEN /\ closeCalls' = Append(closeCalls,
                         CloseCall(WS_1011_INTERNAL_ERROR, out.detail, "handler"))
                   /\ wfail' = "signed"
                   /\ wpc' = "connect"
                   /\ UNCHANGED wend
              ELSE /\ wpc' = "connect"
                   /\ UNCHANGED <<closeCalls, wfail, wend>>
    /\ UNCHANGED <<sessions, tried, okCount, nonSocketVars, wparams, wsession, wprofile,
                   wexc, eleven, peer, taskVars, wireVars>>

\* signed = await eleven_service.get_signed_url(); on HTTPException
\* close(1011, exc.detail) and return.
GetSignedUrl ==
    /\ wpc = "signed"
    /\ \E response \in SignedUrlResponses :
           LET out == get_signed_url(response)
           IN IF out.kind = "raise"
              THEN /\ closeCalls' = Append(closeCalls,
                         CloseCall(WS_1011_INTERNAL_ERROR, out.detail, "handler"))
                   /\ wfail' = "signed"
                   /\ wend' = "returned"
                   /\ wpc' = "done"
              ELSE /\ wpc' = "connect"
                   /\ UNCHANGED <<closeCalls, wfail, wend>>
    /\ UNCHANGED <<sessions, tried, okCount, nonSocketVars, wparams, wsession, wprofile,
                   wexc, eleven, peer, taskVars, wireVars>>

\* async with websockets.connect(...) as eleven_ws, and the two create_task
\* calls; a failed connect raises into `except Exception`.
Connect ==
    /\ wpc = "connect"
    /\ \E connected \in BOOLEAN :
           IF connected
           THEN /\ eleven' = "open"
                /\ tpc' = [t \in Tasks |-> "new"]
                /\ wpc' = "wait"
                /\ UNCHANGED <<wexc, wfail>>
           ELSE /\ wexc' = "error"
                /\ wfail' = "connect"
                /\ wpc' = "except"
                /\ UNCHANGED <<eleven, tpc>>
    /\ UNCHANGED <<sessions, tried, okCount, nonSocketVars, wparams, wsession, wprofile,
                   wend, closeCalls, peer, texc, tcancel, theld, wireVars>>
    /\ UNCHANGED firstDone

\* The wait that cancels the pending tasks and drops the exception of a done one.
WaitReturnsNoRaise ==
    /\ wpc = "wait"
    /\ \E t \in Tasks : tpc[t] = "done"
    /\ \A t \in Tasks : tpc[t] # "new"
    /\ tcancel' = [t \in Tasks |-> tpc[t] # "done"]
    /\ wpc' = "exit"
    /\ UNCHANGED <<sessions, tried, okCount, nonSocketVars, wparams, wsession, wprofile,
                   wexc, wfail, wend, closeCalls, eleven, peer, tpc, texc, theld,
                   wireVars>>
    /\ UNCHANGED firstDone

\* asyncio.wait(..., FIRST_COMPLETED) returns once a task is done; both tasks
\* have run their first step by then.  The pending tasks are cancelled, and the
\* exception of a done task is raised.
WaitReturns ==
    /\ wpc = "wait"
    /\ \E t \in Tasks : tpc[t] = "done"
    /\ \A t \in Tasks : tpc[t] # "new"
    /\ tcancel' = [t \in Tasks |-> tpc[t] # "done"]
    /\ IF \E t \in Tasks : tpc[t] = "done" /\ texc[t] = "error"
       THEN wexc' = "error" /\ wfail' = "relay"
       ELSE UNCHANGED <<wexc, wfail>>
    /\ wpc' = "exit"
    /\ UNCHANGED <<sessions, tried, okCount, nonSocketVars, wparams, wsession, wprofile,
                   wend, closeCalls, eleven, peer, tpc, texc, theld, wireVars>>
    /\ UNCHANGED firstDone

\* Leaving `async with websockets.connect(...)`: eleven_ws is closed.
ExitConnect ==
    /\ wpc = "exit"
    /\ eleven' = "closed"
    /\ IF wexc = "error"
       THEN wpc' = "except" /\ UNCHANGED wend
       ELSE wpc' = "done" /\ wend' = "returned"
    /\ UNCHANGED <<sessions, tried, okCount, nonSocketVars, wparams, wsession, wprofile,
                   wexc, wfail, closeCalls, peer, taskVars, wireVars>>

\* except Exception: await websocket.close(code=1011).  A close on a socket the
\* application has closed already raises out of the handler.
ExceptClose ==
    /\ wpc = "except"
    /\ closeCalls' = Append(closeCalls, CloseCall(WS_1011_INTERNAL_ERROR, "", "handler"))
    /\ wend' = IF ClientClosed THEN "raised" ELSE "returned"
    /\ wpc' = "done"
    /\ UNCHANGED <<sessions, tried, okCount, nonSocketVars, wparams, wsession, wprofile,
                   wexc, wfail, eleven, peer, taskVars, wireVars>>

\* ---- client_to_elevenlabs
\* The task's first step: the initiation payload is sent to eleven_ws.
ToElevenStartNoInit ==
    /\ tpc["to_eleven"] = "new"
    /\ tpc' = [tpc EXCEPT !["to_eleven"] = "recv"]
    /\ UNCHANGED <<sessions, tried, okCount, nonSocketVars, handlerVars, closeCalls,
                   eleven, peer, texc, tcancel, theld, wireVars>>
    /\ UNCHANGED firstDone

ToElevenStart ==
    /\ tpc["to_eleven"] = "new"
    /\ IF UpstreamWritable
       THEN /\ elevenSent' = Append(elevenSent, InitFrame(wprofile))
            /\ tpc' = [tpc EXCEPT !["to_eleven"] = "recv"]
            /\ UNCHANGED texc
       ELSE /\ texc' = [texc EXCEPT !["to_eleven"] = "error"]
            /\ tpc' = [tpc EXCEPT !["to_eleven"] = "finally"]
            /\ UNCHANGED elevenSent
    /\ UNCHANGED <<sessions, tried, okCount, nonSocketVars, handlerVars, closeCalls,
                   eleven, peer, tcancel, theld, clientFrames, cRecv, elevenFrames,
                   eRecv, clientSent>>
    /\ UNCHANGED firstDone

\* The receive that does not wait for the forward of the previous frame.
ToElevenReceiveEager ==
    /\ tpc["to_eleven"] \in {"recv", "send"}
    /\ ~tcancel["to_eleven"]
    /\ cRecv < Len(clientFrames) \/ ClientClosed
    /\ LET message == IF cRecv < Len(clientFrames)
                      THEN clientFrames[cRecv + 1]
                      ELSE [type |-> "websocket.disconnect", text |-> Nil, bytes |-> Nil]
           step == ClientStep(message)
       IN /\ cRecv' = IF cRecv < Len(clientFrames) THEN cRecv + 1 ELSE cRecv
          /\ theld' = [theld EXCEPT !["to_eleven"] = step.frame]
          /\ tpc' = [tpc EXCEPT !["to_eleven"] =
                        CASE step.act = "send" -> "send"
                          [] step.act = "break" -> "finally"
                          [] OTHER -> "recv"]
    /\ UNCHANGED <<sessions, tried, okCount, nonSocketVars, handlerVars, closeCalls,
                   eleven, peer, texc, tcancel, clientFrames, elevenSent, elevenFrames,
                   eRecv, clientSent>>
    /\ UNCHANGED firstDone

\* message = await websocket.receive() and the branch taken on it.  Once the
\* application has closed the client socket the server answers with a disconnect.
ToElevenReceive ==
    /\ tpc["to_eleven"] = "recv"
    /\ ~tcancel["to_eleven"]
    /\ cRecv < Len(clientFrames) \/ ClientClosed
    /\ LET message == IF cRecv < Len(clientFrames)
                      THEN clientFrames[cRecv + 1]
                      ELSE [type |-> "websocket.disconnect", text |-> Nil, bytes |-> Nil]
           step == ClientStep(message)
       IN /\ cRecv' = IF cRecv < Len(clientFrames) THEN cRecv + 1 ELSE cRecv
          /\ theld' = [theld EXCEPT !["to_eleven"] = step.frame]
          /\ tpc' = [tpc EXCEPT !["to_eleven"] =
                        CASE step.act = "send" -> "send"
                          [] step.act = "break" -> "finally"
                          [] OTHER -> "recv"]
    /\ UNCHANGED <<sessions, tried, okCount, nonSocketVars, handlerVars, closeCalls,
                   eleven, peer, texc, tcancel, clientFrames, elevenSent, elevenFrames,
                   eRecv, clientSent>>
    /\ UNCHANGED firstDone

\* await eleven_ws.send(...): raises once the upstream connection is closed.
ToElevenSend ==
    /\ tpc["to_eleven"] = "send"
    /\ ~tcancel["to_eleven"]
    /\ IF UpstreamWritable
       THEN /\ elevenSent' = Append(elevenSent, theld["to_eleven"])
            /\ tpc' = [tpc EXCEPT !["to_eleven"] = "recv"]
            /\ UNCHANGED texc
       ELSE /\ texc' = [texc EXCEPT !["to_eleven"] = "error"]
            /\ tpc' = [tpc EXCEPT !["to_eleven"] = "finally"]
            /\ UNCHANGED elevenSent
    /\ theld' = [theld EXCEPT !["to_eleven"] = NoFrame]
    /\ UNCHANGED <<sessions, tried, okCount, nonSocketVars, handlerVars, closeCalls,
                   eleven, peer, tcancel, clientFrames, cRecv, elevenFrames, eRecv,
                   clientSent>>
    /\ UNCHANGED firstDone

\* finally: await eleven_ws.close()
ToElevenFinally ==
    /\ tpc["to_eleven"] = "finally"
    /\ ~tcancel["to_eleven"]
    /\ eleven' = "closed"
    /\ tpc' = [tpc EXCEPT !["to_eleven"] = "done"]
    /\ UNCHANGED <<sessions, tried, okCount, nonSocketVars, handlerVars, closeCalls,
                   peer, texc, tcancel, theld, wireVars>>
    /\ MarkDone("to_eleven", texc["to_eleven"])

\* ---- elevenlabs_to_client
\* The task's first step: it enters the iteration over eleven_ws.
ToClientStart ==
    /\ tpc["to_client"] = "new"
    /\ tpc' = [tpc EXCEPT !["to_client"] = "recv"]
    /\ UNCHANGED <<sessions, tried, okCount, nonSocketVars, handlerVars, closeCalls,
                   eleven, peer, texc, tcancel, theld, wireVars>>
    /\ UNCHANGED firstDone

\* async for data in eleven_ws: the next frame; the end of the iteration when the
\* connection was closed normally; ConnectionClosedError when it was not.
ToClientNext ==
    /\ tpc["to_client"] = "recv"
    /\ ~tcancel["to_client"]
    /\ eRecv < Len(elevenFrames) \/ eleven = "closed" \/ peer # "open"
    /\ IF eRecv < Len(elevenFrames)
       THEN /\ eRecv' = eRecv + 1
            /\ theld' = [theld EXCEPT !["to_client"] = UpstreamStep(elevenFrames[eRecv + 1])]
            /\ tpc' = [tpc EXCEPT !["to_client"] = "send"]
            /\ UNCHANGED texc
       ELSE /\ texc' = [texc EXCEPT !["to_client"] =
                          IF eleven = "open" /\ peer = "closed_err"
                          THEN "error" ELSE "none"]
            /\ tpc' = [tpc EXCEPT !["to_client"] = "finally"]
            /\ UNCHANGED <<eRecv, theld>>
    /\ UNCHANGED <<sessions, tried, okCount, nonSocketVars, handlerVars, closeCalls,
                   eleven, peer, tcancel, clientFrames, cRecv, elevenSent, elevenFrames,
                   clientSent>>
    /\ UNCHANGED firstDone

\* await websocket.send_bytes(data) or send_text(data): raises once the
\* application has closed the client socket; after a client disconnect it raises
\* or the frame goes nowhere.
ToClientSend ==
    /\ tpc["to_client"] = "send"
    /\ ~tcancel["to_client"]
    /\ \E raises \in BOOLEAN :
           /\ ClientClosed => raises
           /\ (~ClientClosed /\ ~ClientGone) => ~raises
           /\ IF raises
              THEN /\ texc' = [texc EXCEPT !["to_client"] = "error"]
                   /\ tpc' = [tpc EXCEPT !["to_client"] = "finally"]
                   /\ UNCHANGED clientSent
              ELSE /\ clientSent' = IF ClientGone THEN clientSent
                                    ELSE Append(clientSent, theld["to_client"])
                   /\ tpc' = [tpc EXCEPT !["to_client"] = "recv"]
                   /\ UNCHANGED texc
    /\ theld' = [theld EXCEPT !["to_client"] = NoFrame]
    /\ UNCHANGED <<sessions, tried, okCount, nonSocketVars, handlerVars, closeCalls,
                   eleven, peer, tcancel, clientFrames, cRecv, elevenSent, elevenFrames,
                   eRecv>>
    /\ UNCHANGED firstDone

\* finally: await websocket.close().  On a socket the application has closed
\* already the call raises, and the task ends with that exception.
ToClientFinally ==
    /\ tpc["to_client"] = "finally"
    /\ ~tcancel["to_client"]
    /\ closeCalls' = Append(closeCalls, CloseCall(WS_1000_NORMAL_CLOSURE, "", "to_client"))
    /\ texc' = [texc EXCEPT !["to_client"] = IF ClientClosed THEN "error" ELSE @]
    /\ tpc' = [tpc EXCEPT !["to_client"] = "done"]
    /\ UNCHANGED <<sessions, tried, okCount, nonSocketVars, handlerVars, eleven, peer,
                   tcancel, theld, wireVars>>
    /\ MarkDone("to_client", IF ClientClosed THEN "error" ELSE texc["to_client"])

\* ---- cancellation
\* CancelledError is thrown into a task at the await of its loop: it goes to its
\* finally block and the frame it held is dropped.
Cancelled(t) ==
    /\ tcancel[t]
    /\ tpc[t] \in {"recv", "send"}
    /\ tcancel' = [tcancel EXCEPT ![t] = FALSE]
    /\ texc' = [texc EXCEPT ![t] = "cancelled"]
    /\ theld' = [theld EXCEPT ![t] = NoFrame]
    /\ tpc' = [tpc EXCEPT ![t] = "finally"]
    /\ UNCHANGED <<sessions, tried, okCount, nonSocketVars, handlerVars, closeCalls,
                   eleven, peer, wireVars>>
    /\ UNCHANGED firstDone

\* CancelledError is thrown into a task at the await of its finally block: the
\* close it was making has taken effect or not.
CancelledInFinally(t) ==
    /\ tcancel[t]
    /\ tpc[t] = "finally"
    /\ \E closed \in BOOLEAN :
           /\ eleven' = IF closed /\ t = "to_eleven" THEN "closed" ELSE eleven
           /\ closeCalls' = IF closed /\ t = "to_client"
                            THEN Append(closeCalls,
                                        CloseCall(WS_1000_NORMAL_CLOSURE, "", "to_client"))
                            ELSE closeCalls
    /\ tcancel' = [tcancel EXCEPT ![t] = FALSE]
    /\ texc' = [texc EXCEPT ![t] = "cancelled"]
    /\ tpc' = [tpc EXCEPT ![t] = "done"]
    /\ UNCHANGED <<sessions, tried, okCount, nonSocketVars, handlerVars, peer, theld,
                   wireVars>>
    /\ MarkDone(t, "cancelled")

\* ------------------------------------------------------------ clock
\* The clock step with a sweep of the expired records.
TickSweep ==
    /\ now + TickUnit <= MaxTicks * TickUnit
    /\ now' = now + TickUnit
    /\ sessions' = [sid \in {x \in DOMAIN sessions : sessions[x].expires_at >= now'}
                       |-> sessions[sid]]
    /\ UNCHANGED <<lock, minted, tried, okCount, redeemVars, httpVars>>

Tick ==
    /\ now + TickUnit <= MaxTicks * TickUnit
    /\ now' = now + TickUnit
    /\ UNCHANGED <<sessions, lock, minted, tried, okCount, redeemVars, httpVars>>

\* ------------------------------------------------------------ specification
Init ==
    /\ sessions = <<>>
    /\ lock = "free"
    /\ now = 0
    /\ minted = <<>>
    /\ tried = {}
    /\ okCount = [s \in SessionIds |-> 0]
    /\ rpc = [r \in Redeemers |-> "idle"]
    /\ rargs = [r \in Redeemers |-> NoArgs]
    /\ rrecord = [r \in Redeemers |-> NoRecord]
    /\ rresult = [r \in Redeemers |-> NoResult]
    /\ hpc = "idle"
    /\ hauth = NoHeader
    /\ huser = "u1"
    /\ hdata = NoRow
    /\ hbase = [sessions |-> <<>>, minted |-> <<>>]
    /\ hresult = NoResult
    /\ InitSocketVars

Next ==
    \/ \E u \in Users : CreateSession(u) /\ UNCHANGED <<redeemVars, httpVars, socketVars>>
    \/ \E r \in Redeemers, sid \in SessionIds, tok \in Tokens :
           ConsumeCall(r, sid, tok) /\ UNCHANGED socketVars
    \/ \E r \in Redeemers : ConsumeAcquire(r) /\ UNCHANGED socketVars
    \/ \E r \in Redeemers : ConsumePop(r) /\ UNCHANGED socketVars
    \/ \E r \in Redeemers : ConsumeFinish(r) /\ UNCHANGED socketVars
    \/ Tick /\ UNCHANGED socketVars

Spec == Init /\ [][Next]_vars

\* The session-request endpoint alone with the store and the clock.
NextRequest ==
    \/ \E h \in Headers : HttpRequest(h) /\ UNCHANGED <<redeemVars, socketVars>>
    \/ HttpRequireAuth /\ UNCHANGED <<redeemVars, socketVars>>
    \/ HttpFetchProfile /\ UNCHANGED <<redeemVars, socketVars>>
    \/ HttpCreateSession /\ UNCHANGED <<redeemVars, socketVars>>
    \/ Tick /\ UNCHANGED socketVars

SpecRequest == Init /\ [][NextRequest]_vars

\* One socket connection.  It starts from the store after one create_session at
\* time 0, and the client connects at once, on the deadline or after it.
InitSocket ==
    /\ \E u \in Users :
           /\ sessions = (1 :> PendingSession(u, 1, session_ttl_seconds))
           /\ minted = (1 :> PendingSession(u, 1, session_ttl_seconds))
    /\ lock = "free"
    /\ now \in {0, session_ttl_seconds, 2 * session_ttl_seconds}
    /\ tried = {}
    /\ okCount = [s \in SessionIds |-> 0]
    /\ rpc = [r \in Redeemers |-> "idle"]
    /\ rargs = [r \in Redeemers |-> NoArgs]
    /\ rrecord = [r \in Redeemers |-> NoRecord]
    /\ rresult = [r \in Redeemers |-> NoResult]
    /\ hpc = "idle"
    /\ hauth = NoHeader
    /\ huser = "u1"
    /\ hdata = NoRow
    /\ hbase = [sessions |-> <<>>, minted |-> <<>>]
    /\ hresult = NoResult
    /\ InitSocketVars

NextSocket ==
    \/ \E m \in ClientMessages : ClientPut(m)
    \/ \E f \in UpstreamFrames : UpstreamPut(f)
    \/ \E k \in {"closed_ok", "closed_err"} : UpstreamClose(k)
    \/ \E sid \in QueryValues, tok \in QueryValues : Accept(sid, tok)
    \/ CheckParams
    \/ Redeem
    \/ FetchProfile
    \/ GetSignedUrl
    \/ Connect
    \/ ToElevenStart
    \/ ToElevenReceive
    \/ ToElevenSend
    \/ ToElevenFinally
    \/ ToClientStart
    \/ ToClientNext
    \/ ToClientSend
    \/ ToClientFinally
    \/ \E t \in Tasks : Cancelled(t)
    \/ \E t \in Tasks : CancelledInFinally(t)
    \/ WaitReturns
    \/ ExitConnect
    \/ ExceptClose

SpecSocket == InitSocket /\ [][NextSocket]_vars

\* The event loop runs every callback that is ready: the handler and each pump
\* task take their next step when it stays enabled.  The two peers are free.
HandlerStep ==
    \/ CheckParams
    \/ Redeem
    \/ FetchProfile
    \/ GetSignedUrl
    \/ Connect
    \/ WaitReturns
    \/ ExitConnect
    \/ ExceptClose

ToElevenStep ==
    \/ ToElevenStart
    \/ ToElevenReceive
    \/ ToElevenSend
    \/ ToElevenFinally
    \/ Cancelled("to_eleven")
    \/ CancelledInFinally("to_eleven")

ToClientStep ==
    \/ ToClientStart
    \/ ToClientNext
    \/ ToClientSend
    \/ ToClientFinally
    \/ Cancelled("to_client")
    \/ CancelledInFinally("to_client")

SpecSocketFair ==
    /\ SpecSocket
    /\ WF_vars(HandlerStep)
    /\ WF_vars(ToElevenStep)
    /\ WF_vars(ToClientStep)

\* ------------------------------------------------------------ claims on the store
Done(r) == rresult[r].kind # "none"
Succeeded(r) == rresult[r].kind = "return"
Failed(r) == rresult[r].kind = "raise"
\* The call presented the pair create_session returned.
ExactPair(r) == rresult[r].obs.minted /\ rresult[r].obs.token_ok
\* The id was not in the store: never minted, or popped before.
UnknownId(r) == Done(r) /\ (~rresult[r].obs.minted \/ ~rresult[r].obs.first)
\* The record was there and the token presented is not its token.
WrongToken(r) ==
    rresult[r].obs.minted /\ rresult[r].obs.first /\ ~rresult[r].obs.token_ok
\* The record was there, the token was right and the deadline had passed.
Expired(r) == ExactPair(r) /\ rresult[r].obs.first /\ rresult[r].obs.late
SameId(r1, r2) == rresult[r1].obs.session_id = rresult[r2].obs.session_id
SameError(r1, r2) ==
    /\ Failed(r1) /\ Failed(r2)
    /\ rresult[r1].out.status_code = rresult[r2].out.status_code
    /\ rresult[r1].out.detail = rresult[r2].out.detail

\* C1: for every session id, at most one consume_session call ever returns; a
\* call that comes after the first pop of the id, and so any call with the same
\* pair after a successful one, raises.
C1_AtMostOneRedeem ==
    /\ \A sid \in SessionIds : okCount[sid] <= 1
    /\ \A r \in Redeemers :
           (Done(r) /\ rresult[r].obs.minted /\ ~rresult[r].obs.first) => Failed(r)

C1_Witness ==
    \E r1, r2 \in Redeemers :
        /\ Succeeded(r1) /\ ExactPair(r1) /\ SameId(r1, r2)
        /\ Failed(r2) /\ ExactPair(r2) /\ ~rresult[r2].obs.first /\ ~rresult[r2].obs.late
        /\ okCount[rresult[r2].obs.session_id] = 1

\* C2: of two consume_session calls with the returned pair that wait for the lock
\* together on a pending, unexpired credential, exactly one returns: the one that
\* runs first returns and the other raises.
C2_RaceOneWinner ==
    \A r1, r2 \in Redeemers :
        ( /\ r1 # r2 /\ Done(r1) /\ Done(r2) /\ SameId(r1, r2)
          /\ ExactPair(r1) /\ ExactPair(r2)
          /\ ~rresult[r1].obs.late /\ ~rresult[r2].obs.late
          /\ rresult[r1].obs.first /\ rresult[r1].raced )
        => (Succeeded(r1) /\ Failed(r2))

C2_Witness ==
    \E r1, r2 \in Redeemers :
        /\ r1 # r2 /\ Succeeded(r1) /\ Failed(r2) /\ SameId(r1, r2)
        /\ ExactPair(r1) /\ ExactPair(r2)
        /\ ~rresult[r2].obs.late
        /\ rresult[r1].raced
        /\ Cardinality(DOMAIN minted) = 2
        /\ minted[2].expires_at > minted[1].expires_at

\* C3: the first consume_session on a minted id, with the returned pair and before
\* the deadline, returns the record whose owner is the user_id passed to
\* create_session.
C3_IssueThenRedeem ==
    \A r \in Redeemers :
        ( /\ Done(r) /\ ExactPair(r) /\ rresult[r].obs.first
          /\ ~rresult[r].obs.late /\ ~rresult[r].obs.on_deadline )
        => /\ Succeeded(r)
           /\ rresult[r].out.value.user_id = rresult[r].obs.owner

C3_Witness ==
    \E r1, r2 \in Redeemers :
        /\ Succeeded(r1) /\ rresult[r1].obs.first /\ rresult[r1].obs.owner = "u1"
        /\ Succeeded(r2) /\ rresult[r2].obs.first /\ rresult[r2].obs.owner = "u2"
        /\ ~rresult[r1].obs.on_deadline /\ ~rresult[r2].obs.on_deadline

\* C4: consume_session with the returned pair after expires_at raises, and the
\* record is no longer in the store when the call ends; the same call repeated
\* raises too.
C4_ExpiredFailsAndRemoved ==
    \A r \in Redeemers :
        (Done(r) /\ ExactPair(r) /\ rresult[r].obs.late)
        => /\ Failed(r)
           /\ rresult[r].obs.session_id \notin DOMAIN sessions

C4_Witness ==
    \E r1, r2 \in Redeemers :
        /\ r1 # r2 /\ SameId(r1, r2)
        /\ Failed(r1) /\ Expired(r1)
        /\ Failed(r2) /\ ExactPair(r2) /\ rresult[r2].obs.late /\ ~rresult[r2].obs.first

\* C5: a call with a pending id and a wrong token raises the same status code and
\* detail as a call with an id that is not in the store.
C5_WrongTokenLikeUnknownId ==
    \A r1, r2 \in Redeemers :
        (Done(r1) /\ WrongToken(r1) /\ UnknownId(r2)) => SameError(r1, r2)

C5_Witness ==
    \E r1, r2 \in Redeemers :
        /\ Done(r1) /\ WrongToken(r1) /\ ~rresult[r1].obs.late
        /\ Done(r2) /\ ~rresult[r2].obs.minted

\* C6: all failing consume_session calls raise the same status code and detail,
\* whatever the cause (unknown id, wrong token, expired, already consumed), and
\* a call repeated after an expired failure raises what the first raised.
C6_UniformFailure ==
    \A r1, r2 \in Redeemers : (Failed(r1) /\ Failed(r2)) => SameError(r1, r2)

\* ------------------------------------------------------------ claims on the session request
HttpFailed == hpc = "idle" /\ hresult.kind = "raise"
HttpMinted == hpc = "idle" /\ hresult.kind = "return"

\* C7: a session request that fails the identity check or the profile fetch
\* leaves the store as it was when the request arrived, and a credential is
\* minted only after both have succeeded.
C7_NoMintOnFailure ==
    /\ HttpFailed => (sessions = hbase.sessions /\ minted = hbase.minted)
    /\ (hpc = "create" \/ HttpMinted) =>
           /\ RequireAuthUser(hauth).kind = "return"
           /\ fetch_profile(huser, hdata).kind = "return"

C7_Witness ==
    /\ HttpFailed
    /\ hresult.out.status_code = HTTP_404_NOT_FOUND
    /\ hdata.row
    /\ Cardinality(DOMAIN sessions) = 1

\* ------------------------------------------------------------ claims on the socket
\* The close code the client sees: that of the first close issued on its socket.
Redeemed == wsession # None
HandlerOver == wpc = "done"
ClosedWith(code) == closeCalls # <<>> /\ closeCalls[1].code = code

\* C8: a redemption failure closes the accepted client socket with 1008; every
\* failure after a successful redemption (profile fetch, signed URL, upstream
\* connect, relay error) closes it with 1011; 1008 is never used once
\* redemption has succeeded.
C8_CloseCodes ==
    /\ (HandlerOver /\ wfail \in {"params", "redeem"})
           => ClosedWith(WS_1008_POLICY_VIOLATION)
    /\ (HandlerOver /\ wfail \in {"profile", "signed", "connect", "relay"})
           => ClosedWith(WS_1011_INTERNAL_ERROR)
    /\ \A i \in 1..Len(closeCalls) :
           closeCalls[i].code = WS_1008_POLICY_VIOLATION => ~Redeemed

\* The positions of the initiation message among the frames sent upstream.
InitPositions == {i \in 1..Len(elevenSent) : elevenSent[i] = InitFrame(wprofile)}
ToElevenStarted == tpc["to_eleven"] \notin {"none", "new"}

\* C9: in a relay run the initiation message is sent upstream exactly once, as
\* the first frame sent upstream, and no frame of the client is forwarded before
\* it: the pump is in its loop only after that one send, and when the send
\* itself raised (the upstream had closed) nothing at all goes upstream and no
\* client frame is even received.
C9_InitiationFirst ==
    /\ Cardinality(InitPositions) <= 1
    /\ elevenSent # <<>> => InitPositions = {1}
    /\ tpc["to_eleven"] \in {"recv", "send"} => InitPositions = {1}
    /\ (ToElevenStarted /\ elevenSent = <<>>)
           => (tpc["to_eleven"] \in {"finally", "done"} /\ cRecv = 0)
    /\ ~ToElevenStarted => elevenSent = <<>>

C9_Witness ==
    /\ Len(elevenSent) = 3
    /\ InitPositions = {1}
    /\ elevenSent[2].kind # elevenSent[3].kind
    /\ tpc["to_eleven"] = "recv"

IsPrefix(s, t) == Len(s) <= Len(t) /\ \A i \in 1..Len(s) : s[i] = t[i]

\* The text and binary frames among the first n messages of the client, in order.
RECURSIVE ClientFramesReceived(_)
ClientFramesReceived(n) ==
    IF n = 0 THEN <<>>
    ELSE LET m == clientFrames[n]
         IN IF m.text.some
            THEN Append(ClientFramesReceived(n - 1), Frame("text", m.text.v))
            ELSE IF m.bytes.some
                 THEN Append(ClientFramesReceived(n - 1), Frame("binary", m.bytes.v))
                 ELSE ClientFramesReceived(n - 1)

UpstreamFramesReceived == SubSeq(elevenFrames, 1, eRecv)
SentAfterInit == IF elevenSent = <<>> THEN <<>> ELSE Tail(elevenSent)

\* C10: in each direction frames are forwarded in the order received, one by
\* one: the frames sent upstream after the initiation message are a prefix of
\* the text and binary frames received from the client, the frames sent to the
\* client are a prefix of the frames received from upstream, and a pump waiting
\* for its next frame has forwarded every frame it received.
C10_OrderPreserved ==
    /\ IsPrefix(SentAfterInit, ClientFramesReceived(cRecv))
    /\ IsPrefix(clientSent, UpstreamFramesReceived)
    /\ (tpc["to_eleven"] = "recv" /\ ~tcancel["to_eleven"])
           => SentAfterInit = ClientFramesReceived(cRecv)
    /\ (tpc["to_eleven"] = "send" /\ ~tcancel["to_eleven"])
           => Append(SentAfterInit, theld["to_eleven"]) = ClientFramesReceived(cRecv)
    /\ (tpc["to_client"] = "recv" /\ ~tcancel["to_client"] /\ ~ClientGone)
           => clientSent = UpstreamFramesReceived
    /\ (tpc["to_client"] = "send" /\ ~tcancel["to_client"] /\ ~ClientGone)
           => Append(clientSent, theld["to_client"]) = UpstreamFramesReceived

C10_Witness ==
    /\ Len(SentAfterInit) = 2
    /\ SentAfterInit[1].kind # SentAfterInit[2].kind
    /\ Len(clientSent) = 2
    /\ clientSent[1].kind # clientSent[2].kind

RelayRan == \A t \in Tasks : tpc[t] # "none"

\* C11: when conversation_socket is over after a relay, the client socket and
\* the upstream socket have been closed and both pump tasks are done, their
\* cleanup included.
C11_TeardownComplete ==
    (HandlerOver /\ RelayRan)
        => /\ ClientClosed
           /\ eleven = "closed"
           /\ \A t \in Tasks : tpc[t] = "done" /\ ~tcancel[t]

ToElevenFailed == tpc["to_eleven"] = "done" /\ texc["to_eleven"] = "error"
ToClientBlocked == tpc["to_client"] = "recv"
RelayTornDown == HandlerOver /\ ClientClosed /\ eleven = "closed"

ClosedAfterInit ==
    /\ peer # "open"
    /\ elevenSent = <<InitFrame(wprofile)>>
    /\ elevenFrames = <<>>
    /\ clientFrames = <<>>

\* C13: when upstream closes right after the initiation message, at most one
\* close is ever issued on the client socket, and the handler is over only with
\* the client socket closed and by a return.
C13_UpstreamClosesAfterInit ==
    ClosedAfterInit =>
        /\ Len(closeCalls) <= 1
        /\ HandlerOver => (ClientClosed /\ wend = "returned")

ClientDisconnectReceived ==
    cRecv > 0 /\ clientFrames[cRecv].type = "websocket.disconnect"

\* C14: the relay ends with the internal-error close of the client socket
\* exactly when the pump that was done first ended with an error; a disconnect
\* of the client ends client_to_elevenlabs without an error.
C14_ErrorIffFirstErrored ==
    /\ (HandlerOver /\ RelayRan)
           => (ClosedWith(WS_1011_INTERNAL_ERROR) <=> firstDone.exc = "error")
    /\ (ClientDisconnectReceived /\ tpc["to_eleven"] \in {"finally", "done"})
           => texc["to_eleven"] # "error"

\* The call was made at the instant expires_at or later.
AtOrAfterDeadline(r) == rresult[r].obs.late \/ rresult[r].obs.on_deadline

\* C15 as stated: consume_session with the returned pair at or after expires_at,
\* the instant expires_at itself included, raises.
C15_InvalidAtOrAfterDeadline ==
    \A r \in Redeemers :
        (Done(r) /\ ExactPair(r) /\ AtOrAfterDeadline(r)) => Failed(r)

\* C15: the first consume_session with the returned pair raises when it is made
\* after expires_at, and returns the record when it is made at the instant
\* expires_at = issue time + ttl: the credential is invalid only strictly after
\* its deadline.
C15_ValidThroughDeadline ==
    \A r \in Redeemers :
        (Done(r) /\ ExactPair(r) /\ rresult[r].obs.first)
        => /\ rresult[r].obs.late => Failed(r)
           /\ rresult[r].obs.on_deadline => Succeeded(r)

C15_Witness ==
    \E r1, r2 \in Redeemers :
        /\ Succeeded(r1) /\ ExactPair(r1) /\ rresult[r1].obs.on_deadline
        /\ Failed(r2) /\ ExactPair(r2) /\ rresult[r2].obs.first /\ rresult[r2].obs.late

\* C16: a consume_session with a pending id and a wrong token raises and leaves
\* the id out of the store, and a consume_session with the returned pair on
\* that id afterwards raises too: the first attempt destroys the credential
\* whether it succeeds or fails.
C16_DestroyedByFailedAttempt ==
    \A r1 \in Redeemers :
        (Done(r1) /\ WrongToken(r1))
        => /\ Failed(r1)
           /\ rresult[r1].obs.session_id \notin DOMAIN sessions
           /\ \A r2 \in Redeemers \ {r1} :
                  (Done(r2) /\ SameId(r1, r2) /\ ExactPair(r2)) => Failed(r2)

C16_Witness ==
    \E r1, r2 \in Redeemers :
        /\ r1 # r2 /\ SameId(r1, r2)
        /\ Failed(r1) /\ WrongToken(r1)
        /\ Failed(r2) /\ ExactPair(r2)
        /\ ~rresult[r2].obs.late /\ ~rresult[r2].obs.on_deadline

\* C19: in an execution of conversation_socket a close is issued on the client
\* socket at most once, whichever pump is done first and however it ended.
C19_CloseAtMostOnce == Len(closeCalls) <= 1

\* The state of the connection in the upgrade state machine, read off the
\* position of conversation_socket.
SessionState ==
    CASE wpc \in {"idle", "params", "redeem"} -> "REQUESTED"
      [] wpc = "profile" -> "REDEEMED"
      [] wpc \in {"signed", "connect"} -> "CONNECTING"
      [] wpc = "except" /\ ~RelayRan -> "CONNECTING"
      [] wpc = "wait" -> "STREAMING"
      [] wpc \in {"exit", "except"} /\ RelayRan -> "STREAMING"
      [] OTHER -> "CLOSED"

StateRank(state) ==
    CASE state = "REQUESTED" -> 1
      [] state = "REDEEMED" -> 2
      [] state = "CONNECTING" -> 3
      [] state = "STREAMING" -> 4
      [] OTHER -> 5

StreamingOnlyAfterHandshake ==
    (SessionState = "STREAMING" \/ RelayRan)
        => /\ Redeemed
           /\ wparams.session_id \notin DOMAIN sessions
           /\ wprofile # None
           /\ wfail \notin {"params", "redeem", "profile", "signed", "connect"}

HandshakeFailureCloses ==
    wfail \in {"params", "redeem", "profile", "signed", "connect"}
        => /\ ~RelayRan
           /\ SessionState \in {"CONNECTING", "CLOSED"}
           /\ SessionState = "CLOSED" => ClientClosed

\* C17: the connection moves only forward through REQUESTED, REDEEMED,
\* CONNECTING, STREAMING, CLOSED; it is STREAMING only after the redemption, the
\* profile fetch and the signed-URL fetch succeeded; a failure before STREAMING
\* ends in CLOSED with the client socket closed and no relay ever started.
C17_ForwardOnly ==
    /\ [](StreamingOnlyAfterHandshake /\ HandshakeFailureCloses)
    /\ [][StateRank(SessionState') >= StateRank(SessionState)]_vars

C17_Witness ==
    /\ SessionState = "CLOSED"
    /\ RelayRan
    /\ wfail = "none"
    /\ wend = "returned"

\* A pump holds a frame only between its receive and the end of its forward.
HoldsOnlyWhileForwarding ==
    \A t \in Tasks : theld[t] # NoFrame => tpc[t] = "send"

\* The frames a pump has received and not sent on are one at most.
AtMostOneInHand ==
    /\ Len(ClientFramesReceived(cRecv)) <= Len(SentAfterInit) + 1
    /\ ~ClientGone => eRecv <= Len(clientSent) + 1

\* A pump takes a message from its source only at its receive, with no frame in hand.
ReceiveOnlyWhenEmpty ==
    /\ cRecv' # cRecv => (tpc["to_eleven"] = "recv" /\ theld["to_eleven"] = NoFrame)
    /\ eRecv' # eRecv => (tpc["to_client"] = "recv" /\ theld["to_client"] = NoFrame)

\* C18: each pump holds at most one received frame that it has not forwarded,
\* and it takes the next message from its source only after the forward of the
\* previous frame is over; the relay keeps no queue of frames.
C18_OneFrameInHand ==
    /\ [](HoldsOnlyWhileForwarding /\ AtMostOneInHand)
    /\ [][ReceiveOnlyWhenEmpty]_vars

C18_Witness ==
    /\ tpc["to_eleven"] = "send" /\ theld["to_eleven"] # NoFrame
    /\ tpc["to_client"] = "send" /\ theld["to_client"] # NoFrame
    /\ Len(clientFrames) > cRecv
    /\ Len(elevenFrames) > eRecv

\* A record leaves the store or changes only in the pop of a consume_session
\* called with its session id.
OnlyOwnRedeemRemoves ==
    \A sid \in DOMAIN sessions :
        \/ sid \in DOMAIN sessions' /\ sessions'[sid] = sessions[sid]
        \/ \E r \in Redeemers :
               /\ rpc[r] = "pop" /\ rpc'[r] = "check"
               /\ rargs[r].session_id = sid

\* A record in the store is the one create_session made, and a credential on
\* which no consume_session has acted is in the store, expired or not.
UnredeemedStays ==
    /\ \A sid \in DOMAIN sessions : sid \in DOMAIN minted /\ sessions[sid] = minted[sid]
    /\ \A sid \in DOMAIN minted : sid \notin tried => sid \in DOMAIN sessions

\* C20: a pending credential leaves the store only through a consume_session on
\* its own session id: create_session, consume_session on other ids and the
\* passing of time leave its record unchanged, and nothing sweeps an expired
\* credential that was never redeemed.
C20_OnlyRedeemRemoves ==
    /\ []UnredeemedStays
    /\ [][OnlyOwnRedeemRemoves]_vars

C20_Witness ==
    \E sid, other \in DOMAIN minted :
        /\ sid # other
        /\ other \in tried /\ other \notin DOMAIN sessions
        /\ sid \in DOMAIN sessions
        /\ now > sessions[sid].expires_at
        /\ sessions[sid] = minted[sid]

====
